---------------------------- MODULE Spec2Model ----------------------------
(***************************************************************************)
(* charles-uno/amulet: exhaustive, deduplicated forward search for the    *)
(* earliest turn on which Primeval Titan can be cast.                     *)
(*                                                                         *)
(*   src/mtg/state.py    GameState (immutable record), GameStates (set),  *)
(*                       the transition library and the turn driver       *)
(*   src/mtg/manager.py  simulate: the turn-by-turn search manager        *)
(*                                                                         *)
(* mtg/mana.py, mtg/card.py and data/cards.yaml are not part of the       *)
(* sources at hand: the mana algebra, the card multiset and the card      *)
(* oracle are modelled from the specification (sections 3, 4.1, 4.2).     *)
(***************************************************************************)
EXTENDS Integers, Sequences, FiniteSets, TLC

(***************************************************************************)
(* Bounds of the model.                                                    *)
(***************************************************************************)
\* decks DeckList(1) .. DeckList(NumDecks) are the deck files tried
NumDecks == 8
\* simulate is run on SimDeck(1) .. SimDeck(NumSimDecks)
NumSimDecks == 4
\* simulate is called with max_turns in 1 .. MaxTurns
MaxTurns == 2
\* a consumer that drains GameState.next_turn stops after this many items
MaxYields == 4

(***************************************************************************)
(* Card oracle (data/cards.yaml, read through mtg/card.py).                *)
(***************************************************************************)
CardNames ==
  { "Forest", "Simic Growth Chamber", "Gemstone Caverns", "Gemstone Mine",
    "Amulet of Vigor", "Summer Bloom", "Explore", "Primeval Titan",
    "Debug Titan", "Summoner's Pact", "Once Upon a Time",
    "Search for Tomorrow", "Sakura-Tribe Scout", "Azusa, Lost but Seeking",
    "Simian Spirit Guide", "Through the Breach", "Ancient Stirrings",
    "Relic of Progenitus", "Opt", "Dryad of the Ilysian Grove" }

\* Mana: tracked colours G and R plus a generic / colourless count N
\* (deck option "colors: RG"; untracked colour sources collapse to generic).
Mana(g, r, n) == [G |-> g, R |-> r, N |-> n]

ManaZero == Mana(0, 0, 0)

\* Mana.__bool__
ManaBool(m) == m # ManaZero

\* Mana.__add__ : componentwise
ManaPlus(a, b) == Mana(a.G + b.G, a.R + b.R, a.N + b.N)

\* Mana.minus(cost): every residue left after a legal payment.  Coloured
\* parts are subtracted componentwise; the generic part of the cost is
\* spread in every possible way over what remains in the pool.
ManaMinus(pool, cost) ==
  IF pool.G < cost.G \/ pool.R < cost.R THEN {}
  ELSE LET rg == pool.G - cost.G
           rr == pool.R - cost.R
       IN { Mana(rg - a, rr - b, pool.N - (cost.N - a - b)) :
              <<a, b>> \in { p \in (0..rg) \X (0..rr) :
                               /\ p[1] + p[2] <= cost.N
                               /\ cost.N - p[1] - p[2] <= pool.N } }

\* Mana.__ge__ : the pool can pay the cost
ManaGE(pool, cost) == ManaMinus(pool, cost) # {}

Types(c) ==
  CASE c \in {"Forest", "Simic Growth Chamber", "Gemstone Caverns",
              "Gemstone Mine"} -> {"land"}
    [] c \in {"Amulet of Vigor", "Relic of Progenitus"} -> {"artifact"}
    [] c \in {"Primeval Titan", "Debug Titan", "Sakura-Tribe Scout",
              "Azusa, Lost but Seeking", "Simian Spirit Guide",
              "Dryad of the Ilysian Grove"} -> {"creature"}
    [] c \in {"Summoner's Pact", "Once Upon a Time", "Through the Breach",
              "Opt"} -> {"instant"}
    [] OTHER -> {"sorcery"}

\* card.cost is None for lands and for Simian Spirit Guide (only exiled from hand)
HasCost(c) == "land" \notin Types(c) /\ c # "Simian Spirit Guide"

Cost(c) ==
  CASE c = "Amulet of Vigor"         -> Mana(0, 0, 1)
    [] c = "Relic of Progenitus"     -> Mana(0, 0, 1)
    [] c = "Summer Bloom"            -> Mana(1, 0, 1)
    [] c = "Explore"                 -> Mana(1, 0, 1)
    [] c = "Primeval Titan"          -> Mana(2, 0, 4)
    [] c = "Debug Titan"             -> Mana(0, 0, 2)
    [] c = "Summoner's Pact"         -> ManaZero
    [] c = "Once Upon a Time"        -> Mana(1, 0, 1)
    [] c = "Search for Tomorrow"     -> Mana(1, 0, 2)
    [] c = "Sakura-Tribe Scout"      -> Mana(1, 0, 0)
    [] c = "Azusa, Lost but Seeking" -> Mana(1, 0, 2)
    [] c = "Through the Breach"      -> Mana(0, 1, 4)
    [] c = "Dryad of the Ilysian Grove" -> Mana(1, 0, 2)
    [] c = "Ancient Stirrings"       -> Mana(1, 0, 0)
    [] c = "Opt"                     -> Mana(0, 0, 1)
    [] OTHER                         -> ManaZero

\* card.cycle_cost is None unless the card has an alternative use from hand
HasCycleCost(c) ==
  c \in {"Once Upon a Time", "Search for Tomorrow", "Simian Spirit Guide"}

CycleCost(c) ==
  CASE c = "Search for Tomorrow" -> Mana(1, 0, 0)
    [] OTHER                     -> ManaZero

\* card.sacrifice_cost is None unless the permanent can be sacrificed
HasSacrificeCost(c) == c = "Relic of Progenitus"

SacrificeCost(c) == Mana(0, 0, 1)

\* card.taps_for : the set of mana options of one tap (empty for non-sources)
TapsFor(c) ==
  CASE c = "Forest"               -> {Mana(1, 0, 0)}
    [] c = "Simic Growth Chamber" -> {Mana(1, 0, 1)}
    [] c = "Gemstone Mine"        -> {Mana(1, 0, 0), Mana(0, 1, 0)}
    [] c = "Gemstone Caverns"     -> {Mana(0, 0, 1)}
    [] OTHER                      -> {}

\* card.enters_tapped
EntersTapped(c) == c = "Simic Growth Chamber"

\* card.dies : the opponent kills it before we untap
Dies(c) == c = "Sakura-Tribe Scout"

IsLand(c) == "land" \in Types(c)

IsCreature(c) == "creature" \in Types(c)

IsGreenCreature(c) ==
  c \in {"Primeval Titan", "Sakura-Tribe Scout", "Azusa, Lost but Seeking",
         "Dryad of the Ilysian Grove"}

IsColorless(c) == IsLand(c) \/ "artifact" \in Types(c) \/ c = "Debug Titan"

\* the oracle's preference among cards ("best" selector); higher is better
BestRank(c) ==
  CASE c = "Primeval Titan"          -> 9
    [] c = "Debug Titan"             -> 8
    [] c = "Simic Growth Chamber"    -> 7
    [] c = "Amulet of Vigor"         -> 6
    [] c = "Azusa, Lost but Seeking" -> 5
    [] c = "Forest"                  -> 4
    [] c = "Gemstone Caverns"        -> 3
    [] c = "Gemstone Mine"           -> 2
    [] c = "Sakura-Tribe Scout"      -> 1
    [] OTHER                         -> 0

(***************************************************************************)
(* Cards: a multiset of card names, as the number of copies of each name.  *)
(***************************************************************************)
NoCards == [c \in CardNames |-> 0]

\* Cards(sequence)
CardsOf(seq) ==
  [c \in CardNames |-> Cardinality({i \in DOMAIN seq : seq[i] = c})]

\* Cards.__contains__
In(c, cards) == cards[c] > 0

\* Cards.__add__ with one card
AddCard(cards, c) == [cards EXCEPT ![c] = @ + 1]

\* Cards.__sub__ with one card
RemoveCard(cards, c) == [cards EXCEPT ![c] = IF @ > 0 THEN @ - 1 ELSE 0]

\* Cards.__add__ / __sub__ with a multiset
AddCards(a, b) == [c \in CardNames |-> a[c] + b[c]]

RemoveCards(a, b) ==
  [c \in CardNames |-> IF a[c] > b[c] THEN a[c] - b[c] ELSE 0]

\* set(cards)
Names(cards) == {c \in CardNames : cards[c] > 0}

CardCount(cards) ==
  LET RECURSIVE Sum(_)
      Sum(S) == IF S = {} THEN 0
                ELSE LET c == CHOOSE x \in S : TRUE
                     IN cards[c] + Sum(S \ {c})
  IN Sum(CardNames)

\* filter(best=True): the one preferred name of the filtered view, if any
Best(S) == {c \in S : \A d \in S : BestRank(d) <= BestRank(c)}


(***************************************************************************)
(* GameState: an immutable record.  GameStates: a set of GameState that    *)
(* holds at most one member of each class of the canonical equality.      *)
(***************************************************************************)
\* sorted(GAME_STATE_DEFAULTS.keys())
FIELDS ==
  << "battlefield", "deck_index", "deck_list", "done", "hand", "land_drops",
     "mana_debt", "mana_pool", "notes", "on_the_play", "overflowed",
     "spells_cast", "suspended", "turn" >>

FieldNames == {FIELDS[i] : i \in DOMAIN FIELDS}

GAME_STATE_DEFAULTS ==
  [ battlefield |-> NoCards, deck_list |-> <<>>, deck_index |-> 0,
    done |-> FALSE, hand |-> NoCards, mana_debt |-> ManaZero,
    mana_pool |-> ManaZero, notes |-> <<>>, on_the_play |-> FALSE,
    overflowed |-> FALSE, land_drops |-> 0, spells_cast |-> 0,
    suspended |-> <<>>, turn |-> 0 ]

\* GameState(**kwargs): the defaults, updated with the keyword arguments
GameState(kwargs) ==
  [f \in FieldNames |->
     IF f \in DOMAIN kwargs THEN kwargs[f] ELSE GAME_STATE_DEFAULTS[f]]

\* an equality that looks at the trace as well
EqWithNotes(a, b) ==
  \A i \in DOMAIN FIELDS :
     FIELDS[i] \in {"deck_list"} \/ a[FIELDS[i]] = b[FIELDS[i]]

\* an equality that forgets the hand
EqSkipsHand(a, b) ==
  \A i \in DOMAIN FIELDS :
     FIELDS[i] \in {"notes", "deck_list", "hand"} \/ a[FIELDS[i]] = b[FIELDS[i]]

\* GameState.__eq__
Eq(a, b) ==
  \A i \in DOMAIN FIELDS :
     FIELDS[i] \in {"notes", "deck_list"} \/ a[FIELDS[i]] = b[FIELDS[i]]

\* hash() of one field value
FieldHash(f, v) ==
  CASE f \in {"battlefield", "hand"}        -> CardCount(v)
    [] f \in {"mana_debt", "mana_pool"}     -> v.G + 3 * v.R + 5 * v.N
    [] f \in {"done", "on_the_play", "overflowed"} -> IF v THEN 1 ELSE 0
    [] f = "suspended"                      -> Len(v)
    [] OTHER                                -> v

\* tuple.__hash__ of the fields kept
TupleHash(s, kept) ==
  LET RECURSIVE H(_)
      H(i) == IF i = 0 THEN 7
              ELSE IF FIELDS[i] \in kept
                   THEN (31 * H(i - 1) + FieldHash(FIELDS[i], s[FIELDS[i]])) % 65536
                   ELSE H(i - 1)
  IN H(Len(FIELDS))

\* GameState.__hash__
Hash(s) == TupleHash(s, FieldNames \ {"notes", "deck_list"})

\* set.add / set.__ior__ : a member equal to one already present is dropped
SetOr(A, B) == A \cup {b \in B : \A a \in A : ~Eq(a, b)}

\* GameStates(iterable): one member per class; which trace variant of a
\* class is met first depends on the iteration order of the set
Collapse(S) == {CHOOSE r \in S : Eq(r, s) : s \in S}

\* GameStates.__getattr__ : apply to every member, union the results
Batch(S, Op(_)) == Collapse(UNION {Op(s) : s \in S})

\* set.pop() of a one-element set
Pop(S) == CHOOSE s \in S : TRUE

\* GameState.clone(**kwargs)
Clone(s, kwargs) ==
  { [f \in FieldNames |-> IF f \in DOMAIN kwargs THEN kwargs[f] ELSE s[f]] }

\* GameState.__len__ : the number of lines of the trace
NewLines ==
  {"\ncast", "\ncycle", "\nplay", "\nsacrifice", "\nopponent kills",
   "\n---- turn"}

StateLen(s) == Cardinality({i \in DOMAIN s.notes : s.notes[i] \in NewLines})

\* GameState.overflow
Overflow(s) == Clone(s, [overflowed |-> TRUE])

(***************************************************************************)
(* Transition library: every operation maps a GameState to a GameStates.   *)
(***************************************************************************)
\* the slice deck_list[deck_index : deck_index + n]
TopSeq(s, n) ==
  LET hi == IF s.deck_index + n <= Len(s.deck_list)
            THEN s.deck_index + n ELSE Len(s.deck_list)
  IN IF s.deck_index >= hi THEN <<>>
     ELSE SubSeq(s.deck_list, s.deck_index + 1, hi)

\* GameState.top
Top(s, n) == CardsOf(TopSeq(s, n))

\* GameState.note
Note(s, note) == Clone(s, [notes |-> s.notes \o note])

\* GameState.add_mana
AddMana(s, m) ==
  Clone(s, [mana_pool |-> ManaPlus(s.mana_pool, m),
            notes |-> s.notes \o <<", in pool">>])

\* GameState.draw
Draw(s, n) ==
  Clone(s, [deck_index |-> s.deck_index + n,
            hand |-> AddCards(s.hand, Top(s, n)),
            notes |-> s.notes \o <<", draw">> \o TopSeq(s, n)])

\* GameState.mill
Mill(s, n) ==
  Clone(s, [deck_index |-> s.deck_index + n,
            notes |-> s.notes \o <<", mill">> \o TopSeq(s, n)])

\* GameState.grab
Grab(s, card) ==
  Clone(s, [hand |-> AddCard(s.hand, card),
            notes |-> s.notes \o <<", grab", card>>])

\* GameState.grabs
Grabs(s, cards) == Collapse(UNION {Grab(s, card) : card \in cards})

\* GameState.scry
Scry(s, n) ==
  SetOr(Mill(s, 1), Clone(s, [notes |-> s.notes \o <<", leave">> \o TopSeq(s, 1)]))

\* GameState.suspend
Suspend(s, card, n) ==
  Clone(s, [suspended |-> Append(s.suspended, <<card, n>>)])

\* a payment that settles for the first residue it finds
PayOneResidue(s, cost, note) ==
  LET residues == ManaMinus(s.mana_pool, cost)
  IN IF residues = {} THEN {}
     ELSE Clone(s, [mana_pool |-> CHOOSE m \in residues : TRUE,
                    notes |-> s.notes \o note])

\* GameState.pay
\* paying that leaves the pool as it was
PayForFree(s, cost, note) ==
  IF ManaMinus(s.mana_pool, cost) = {} THEN {}
  ELSE Clone(s, [notes |-> s.notes \o note])

Pay(s, cost, note) ==
  Collapse(UNION { Clone(s, [mana_pool |-> m, notes |-> s.notes \o note]) :
                     m \in ManaMinus(s.mana_pool, cost) })

\* GameState.tap
Tap(s, card) ==
  LET states ==
        Collapse(UNION { Clone(s, [mana_pool |-> ManaPlus(s.mana_pool, m),
                                   notes |-> s.notes \o
                                     (IF ManaBool(m) THEN <<", in pool">> ELSE <<>>)]) :
                           m \in TapsFor(card) })
  IN IF states # {} THEN states ELSE {s}

\* the loop of GameState.tap_out: every pool the battlefield can make
RECURSIVE TapPools(_, _)
TapPools(pools, cards) ==
  IF Names(cards) = {} THEN pools
  ELSE LET card == CHOOSE c \in Names(cards) : TRUE
           rest == RemoveCard(cards, card)
       IN IF TapsFor(card) = {} THEN TapPools(pools, rest)
          ELSE TapPools({ManaPlus(pool, m) : pool \in pools, m \in TapsFor(card)},
                        rest)

\* GameState.tap_out
TapOut(s) ==
  Collapse(UNION { Clone(s, [mana_pool |-> pool,
                             notes |-> s.notes \o
                               (IF ManaBool(pool) THEN <<", in pool">> ELSE <<>>)]) :
                     pool \in TapPools({s.mana_pool}, s.battlefield) })

\* a bounce that hands the land drop back
BounceLandRefunds(s) ==
  Collapse(UNION { Clone(s, [notes |-> s.notes \o <<", bounce", card>>,
                             battlefield |-> RemoveCard(s.battlefield, card),
                             hand |-> AddCard(s.hand, card),
                             land_drops |-> s.land_drops + 1]) :
                     card \in {c \in Names(s.battlefield) : IsLand(c)} })

\* GameState.bounce_land
BounceLand(s) ==
  Collapse(UNION { Clone(s, [notes |-> s.notes \o <<", bounce", card>>,
                             battlefield |-> RemoveCard(s.battlefield, card),
                             hand |-> AddCard(s.hand, card)]) :
                     card \in {c \in Names(s.battlefield) : IsLand(c)} })

\* GameStates.safe_getattr("play_" + card.slug)
PlayHandler(s, card) ==
  CASE card = "Simic Growth Chamber" -> BounceLand(s)
    [] OTHER                         -> {s}

\* for _ in range(n): states = states.tap(card)
RECURSIVE TapTimes(_, _, _)
TapTimes(states, card, n) ==
  IF n = 0 THEN states
  ELSE TapTimes(Batch(states, LAMBDA x : Tap(x, card)), card, n - 1)

\* a land that enters tapped and stays tapped whatever the Amulets
PlayTappedNoAmulet(s, card, note) ==
  LET states == Clone(s, [battlefield |-> AddCard(s.battlefield, card),
                          hand |-> RemoveCard(s.hand, card),
                          notes |-> s.notes \o note])
  IN Batch(states, LAMBDA x : PlayHandler(x, card))

\* GameState.play_tapped
PlayTapped(s, card, note) ==
  LET states == Clone(s, [battlefield |-> AddCard(s.battlefield, card),
                          hand |-> RemoveCard(s.hand, card),
                          notes |-> s.notes \o note])
      tapped == TapTimes(states, card, s.battlefield["Amulet of Vigor"])
  IN Batch(tapped, LAMBDA x : PlayHandler(x, card))

\* GameState.play_untapped
PlayUntapped(s, card) ==
  LET states == Batch(Clone(s, [hand |-> RemoveCard(s.hand, card),
                                battlefield |-> AddCard(s.battlefield, card)]),
                      LAMBDA x : Tap(x, card))
  IN Batch(states, LAMBDA x : PlayHandler(x, card))

\* GameState.fetch
Fetch(s, card, tapped) ==
  LET state == Clone(s, [notes |-> s.notes \o <<", fetch", card>>,
                         battlefield |-> s.battlefield,
                         hand |-> AddCard(s.hand, card)])
  IN IF tapped \/ EntersTapped(card)
     THEN Batch(state, LAMBDA x : PlayTapped(x, card, <<>>))
     ELSE Batch(state, LAMBDA x : PlayUntapped(x, card))

\* play raises ValueError for a card that is not a land
PlayRaises(s, card) == ~IsLand(card)

\* a play that does not look at the land drops left
PlayNoDropTest(s, card) ==
  IF ~In(card, s.hand) THEN {}
  ELSE LET states == Clone(s, [notes |-> s.notes \o <<"\nplay", card>>,
                               land_drops |-> s.land_drops - 1])
       IN IF EntersTapped(card)
          THEN Batch(states, LAMBDA x : PlayTapped(x, card, <<>>))
          ELSE Batch(states, LAMBDA x : PlayUntapped(x, card))

\* GameState.play
Play(s, card) ==
  IF s.land_drops = 0 \/ ~In(card, s.hand) THEN {}
  ELSE LET states == Clone(s, [notes |-> s.notes \o <<"\nplay", card>>,
                               land_drops |-> s.land_drops - 1])
       IN IF EntersTapped(card)
          THEN Batch(states, LAMBDA x : PlayTapped(x, card, <<>>))
          ELSE Batch(states, LAMBDA x : PlayUntapped(x, card))

\* GameState.cast_amulet_of_vigor
cast_amulet_of_vigor(s) ==
  Clone(s, [battlefield |-> AddCard(s.battlefield, "Amulet of Vigor")])

\* GameState.cast_ancient_stirrings
cast_ancient_stirrings(s) ==
  Batch(Mill(s, 5),
        LAMBDA x : Grabs(x, Best({c \in Names(Top(s, 5)) : IsColorless(c)})))

\* GameState.cast_azusa_lost_but_seeking
cast_azusa_lost_but_seeking(s) ==
  IF In("Azusa, Lost but Seeking", s.battlefield) THEN {}
  ELSE Clone(s, [battlefield |-> AddCard(s.battlefield, "Azusa, Lost but Seeking"),
                 land_drops |-> s.land_drops + 2])

\* GameState.cast_debug_titan
cast_debug_titan(s) == Clone(s, [done |-> TRUE])

\* GameState.cast_dryad_of_the_ilysian_grove
cast_dryad_of_the_ilysian_grove(s) ==
  Clone(s, [battlefield |-> AddCard(s.battlefield, "Dryad of the Ilysian Grove"),
            land_drops |-> s.land_drops + 1])

\* GameState.cast_explore
cast_explore(s) ==
  Batch(Clone(s, [land_drops |-> s.land_drops + 1]), LAMBDA x : Draw(x, 1))

\* GameState.cast_once_upon_a_time
cast_once_upon_a_time(s) ==
  Batch(Mill(s, 5),
        LAMBDA x : Grabs(x, Best({c \in Names(Top(s, 5)) :
                                    IsCreature(c) \/ IsLand(c)})))

\* GameState.cast_opt
cast_opt(s) == Batch(Scry(s, 1), LAMBDA x : Draw(x, 1))

\* GameState.cast_primeval_titan
cast_primeval_titan(s) == Clone(s, [done |-> TRUE])

\* GameState.cast_relic_of_progenitus
cast_relic_of_progenitus(s) ==
  Clone(s, [battlefield |-> AddCard(s.battlefield, "Relic of Progenitus")])

\* GameState.cast_sakura_tribe_scout
cast_sakura_tribe_scout(s) ==
  Clone(s, [battlefield |-> AddCard(s.battlefield, "Sakura-Tribe Scout")])

\* GameState.cast_search_for_tomorrow
cast_search_for_tomorrow(s) == Fetch(s, "Forest", FALSE)

\* GameState.cast_summer_bloom
cast_summer_bloom(s) == Clone(s, [land_drops |-> s.land_drops + 3])

\* GameState.have
Have(s, card) == In(card, s.hand) \/ In(card, s.battlefield)

\* GameState.cast_summoners_pact
cast_summoners_pact(s) ==
  LET options ==
        { card \in Names(CardsOf(s.deck_list)) :
            /\ IsGreenCreature(card)
            /\ ~In(card, s.hand)
            /\ ~(card = "Azusa, Lost but Seeking"
                   /\ In("Azusa, Lost but Seeking", s.battlefield))
            /\ ~(~Have(s, "Amulet of Vigor") /\ card # "Primeval Titan") }
      states == Collapse(UNION {Grab(s, card) : card \in options})
  IN Batch(states,
           LAMBDA x : Clone(x, [mana_debt |-> ManaPlus(s.mana_debt, Mana(2, 0, 2))]))

\* GameState.cast_through_the_breach
cast_through_the_breach(s) ==
  IF ~In("Primeval Titan", s.hand) THEN {} ELSE Clone(s, [done |-> TRUE])

\* getattr(states, "cast_" + card.slug)() on one member
CastHandler(s, card) ==
  CASE card = "Amulet of Vigor"         -> cast_amulet_of_vigor(s)
    [] card = "Ancient Stirrings"       -> cast_ancient_stirrings(s)
    [] card = "Azusa, Lost but Seeking" -> cast_azusa_lost_but_seeking(s)
    [] card = "Debug Titan"             -> cast_debug_titan(s)
    [] card = "Dryad of the Ilysian Grove" -> cast_dryad_of_the_ilysian_grove(s)
    [] card = "Explore"                 -> cast_explore(s)
    [] card = "Once Upon a Time"        -> cast_once_upon_a_time(s)
    [] card = "Opt"                     -> cast_opt(s)
    [] card = "Primeval Titan"          -> cast_primeval_titan(s)
    [] card = "Relic of Progenitus"     -> cast_relic_of_progenitus(s)
    [] card = "Sakura-Tribe Scout"      -> cast_sakura_tribe_scout(s)
    [] card = "Search for Tomorrow"     -> cast_search_for_tomorrow(s)
    [] card = "Summer Bloom"            -> cast_summer_bloom(s)
    [] card = "Summoner's Pact"         -> cast_summoners_pact(s)
    [] card = "Through the Breach"      -> cast_through_the_breach(s)

\* a cast that takes nothing from the pool
CastNoPay(s, card) ==
  IF ~In(card, s.hand) \/ ~HasCost(card) \/ ~ManaGE(s.mana_pool, Cost(card))
  THEN {}
  ELSE Batch(Clone(s, [hand |-> RemoveCard(s.hand, card),
                       notes |-> s.notes \o <<"\ncast", card>>,
                       spells_cast |-> s.spells_cast + 1]),
             LAMBDA x : CastHandler(x, card))

\* GameState.cast
Cast(s, card) ==
  IF ~In(card, s.hand) \/ ~HasCost(card) \/ ~ManaGE(s.mana_pool, Cost(card))
  THEN {}
  ELSE LET states ==
             Batch(Clone(s, [hand |-> RemoveCard(s.hand, card),
                             notes |-> s.notes \o <<"\ncast", card>>,
                             spells_cast |-> s.spells_cast + 1]),
                   LAMBDA x : Pay(x, Cost(card), <<>>))
       IN Batch(states, LAMBDA x : CastHandler(x, card))

\* GameState.cast_from_suspend
CastFromSuspend(s, card) ==
  Batch(Clone(s, [notes |-> s.notes \o <<", cast from suspend", card>>,
                  spells_cast |-> s.spells_cast + 1]),
        LAMBDA x : CastHandler(x, card))

\* a free Once Upon a Time that does not ask whether a spell was cast
cycle_once_upon_a_time_anytime(s) ==
  Batch(Clone(s, [spells_cast |-> s.spells_cast + 1]),
        LAMBDA x : cast_once_upon_a_time(x))

\* GameState.cycle_once_upon_a_time
cycle_once_upon_a_time(s) ==
  IF s.spells_cast # 0 THEN {}
  ELSE Batch(Clone(s, [spells_cast |-> s.spells_cast + 1]),
             LAMBDA x : cast_once_upon_a_time(x))

\* GameState.cycle_search_for_tomorrow
cycle_search_for_tomorrow(s) == Suspend(s, "Search for Tomorrow", 2)

\* GameState.cycle_simian_spirit_guide
cycle_simian_spirit_guide(s) == AddMana(s, Mana(0, 1, 0))

\* GameStates.safe_getattr("cycle_" + card.slug) on one member
CycleHandler(s, card) ==
  CASE card = "Once Upon a Time"    -> cycle_once_upon_a_time(s)
    [] card = "Search for Tomorrow" -> cycle_search_for_tomorrow(s)
    [] card = "Simian Spirit Guide" -> cycle_simian_spirit_guide(s)
    [] OTHER                        -> {s}

\* GameState.cycle
Cycle(s, card) ==
  IF ~In(card, s.hand) \/ ~HasCycleCost(card)
       \/ ~ManaGE(s.mana_pool, CycleCost(card))
  THEN {}
  ELSE LET states ==
             Batch(Clone(s, [hand |-> RemoveCard(s.hand, card),
                             notes |-> s.notes \o <<"\ncycle", card>>]),
                   LAMBDA x : Pay(x, CycleCost(card), <<>>))
       IN Batch(states, LAMBDA x : CycleHandler(x, card))

\* GameState.sacrifice_relic_of_progenitus
sacrifice_relic_of_progenitus(s) == Draw(s, 1)

\* getattr(states, "sacrifice_" + card.slug)() on one member
SacrificeHandler(s, card) ==
  CASE card = "Relic of Progenitus" -> sacrifice_relic_of_progenitus(s)

\* GameState.sacrifice
Sacrifice(s, card) ==
  IF ~In(card, s.battlefield) \/ ~HasSacrificeCost(card)
       \/ ~ManaGE(s.mana_pool, SacrificeCost(card))
  THEN {}
  ELSE LET states ==
             Batch(Clone(s, [battlefield |-> RemoveCard(s.battlefield, card),
                             notes |-> s.notes \o <<"\nsacrifice", card>>]),
                   LAMBDA x : Pay(x, SacrificeCost(card), <<>>))
       IN Batch(states, LAMBDA x : SacrificeHandler(x, card))

\* pre-game actions that do not ask who is on the play
PreGameActionsAnySeat(s) ==
  IF In("Gemstone Caverns", s.hand)
  THEN SetOr(Note(s, <<", ignore", "Gemstone Caverns">>),
             Collapse(UNION
               { Clone(s, [hand |-> RemoveCard(RemoveCard(s.hand, "Gemstone Caverns"), card),
                           battlefield |-> AddCard(s.battlefield, "Gemstone Mine"),
                           notes |-> s.notes \o <<", cheat out", "Gemstone Caverns", card>>]) :
                   card \in Names(RemoveCard(s.hand, "Gemstone Caverns")) }))
  ELSE Note(s, <<", no pre-game actions">>)

\* GameState.pre_game_actions
PreGameActions(s) ==
  IF In("Gemstone Caverns", s.hand) /\ ~s.on_the_play
  THEN SetOr(Note(s, <<", ignore", "Gemstone Caverns">>),
             Collapse(UNION
               { Clone(s, [hand |-> RemoveCard(RemoveCard(s.hand, "Gemstone Caverns"), card),
                           battlefield |-> AddCard(s.battlefield, "Gemstone Mine"),
                           notes |-> s.notes \o <<", cheat out", "Gemstone Caverns", card>>]) :
                   card \in Names(RemoveCard(s.hand, "Gemstone Caverns")) }))
  ELSE Note(s, <<", no pre-game actions">>)

\* sorted(suspended): only Search for Tomorrow is ever suspended
\* (cycle_search_for_tomorrow), so the entries are ordered by their counter
RECURSIVE SortSuspended(_)
SortSuspended(seq) ==
  IF Len(seq) <= 1 THEN seq
  ELSE LET i == CHOOSE k \in DOMAIN seq : \A j \in DOMAIN seq : seq[k][2] <= seq[j][2]
           rest == [j \in 1 .. Len(seq) - 1 |-> IF j < i THEN seq[j] ELSE seq[j + 1]]
       IN <<seq[i]>> \o SortSuspended(rest)

\* for card in to_cast: states = states.cast_from_suspend(card)
RECURSIVE CastAll(_, _)
CastAll(states, to_cast) ==
  IF to_cast = <<>> THEN states
  ELSE CastAll(Batch(states, LAMBDA x : CastFromSuspend(x, Head(to_cast))),
               Tail(to_cast))

\* GameState.tick_down
TickDown(s) ==
  IF s.suspended = <<>> THEN {s}
  ELSE LET keep == SelectSeq(s.suspended, LAMBDA e : e[2] > 1)
           suspended == [i \in DOMAIN keep |-> <<keep[i][1], keep[i][2] - 1>>]
           due == SelectSeq(s.suspended, LAMBDA e : e[2] <= 1)
           to_cast == [i \in DOMAIN due |-> due[i][1]]
           states == IF suspended # <<>>
                     THEN Clone(s, [suspended |-> SortSuspended(suspended),
                                    notes |-> s.notes \o <<", ticking down">>])
                     ELSE {s}
       IN CastAll(states, to_cast)

\* mutant: the turn counter is bumped twice
TurnAfterPassTwice(s) == s.turn + 2

\* turn=self.turn+1
TurnAfterPass(s) == s.turn + 1

\* land drops that count Azusa once
LandDropsAzusaOnce(battlefield) ==
  1 + battlefield["Azusa, Lost but Seeking"]
    + battlefield["Dryad of the Ilysian Grove"]
    + battlefield["Sakura-Tribe Scout"]

\* the land drops of the new turn
LandDrops(battlefield) ==
  1 + 2 * battlefield["Azusa, Lost but Seeking"]
    + battlefield["Dryad of the Ilysian Grove"]
    + battlefield["Sakura-Tribe Scout"]

\* a pruning that lets an empty battlefield through
PrunedIgnoresBattlefield(s) == s.turn < 2 /\ ManaBool(s.mana_debt)

\* the optimizations at the head of pass_turn: the state is dropped
Pruned(s) ==
  \/ s.turn # 0 /\ Names(s.battlefield) = {}
  \/ s.turn < 2 /\ ManaBool(s.mana_debt)

\* GameState.pass_turn
PassTurn(s) ==
  IF Pruned(s) THEN {}
  ELSE
    LET mana_debt == s.mana_debt
        creatures_killed ==
          [c \in CardNames |-> IF Dies(c) THEN s.battlefield[c] ELSE 0]
        state ==
          IF creatures_killed # NoCards
          THEN Pop(Clone(s, [notes |-> s.notes \o <<"\nopponent kills">>,
                             battlefield |-> RemoveCards(s.battlefield, creatures_killed)]))
          ELSE s
        land_drops == LandDrops(state.battlefield)
        cloned == Clone(state, [land_drops |-> land_drops,
                                mana_debt |-> ManaZero,
                                mana_pool |-> ManaZero,
                                turn |-> TurnAfterPass(s)])
        noted == Batch(cloned, LAMBDA x : Note(x, <<"\n---- turn">>))
        tapped == Batch(noted, TapOut)
        pregame == IF s.turn = 0 THEN Batch(tapped, PreGameActions) ELSE tapped
        ticked == Batch(pregame, TickDown)
        paid == IF ManaBool(mana_debt)
                THEN Batch(ticked, LAMBDA x : Pay(x, mana_debt, <<", pay for pact">>))
                ELSE ticked
    IN IF s.on_the_play /\ s.turn = 0 THEN paid
       ELSE Batch(paid, LAMBDA x : Draw(x, 1))

\* branches that give Once Upon a Time no precedence
BranchesNoPriority(s, max_turns) ==
  LET passed == IF s.turn # max_turns THEN PassTurn(s) ELSE {}
      played == SetOr(passed,
                      Collapse(UNION {Play(s, card) :
                                        card \in {c \in Names(s.hand) : IsLand(c)}}))
      spells == SetOr(played,
                      Collapse(UNION {SetOr(Cast(s, card), Cycle(s, card)) :
                                        card \in Names(s.hand)}))
  IN SetOr(spells,
           Collapse(UNION {Sacrifice(s, card) : card \in Names(s.battlefield)}))

\* GameState.next_states, lines 197-212: the branches of a live state
Branches(s, max_turns) ==
  LET passed == IF s.turn # max_turns THEN PassTurn(s) ELSE {}
      played == SetOr(passed,
                      Collapse(UNION {Play(s, card) :
                                        card \in {c \in Names(s.hand) : IsLand(c)}}))
  IN IF s.spells_cast = 0 /\ In("Once Upon a Time", s.hand)
     THEN SetOr(played, Cycle(s, "Once Upon a Time"))
     ELSE LET spells == SetOr(played,
                              Collapse(UNION {SetOr(Cast(s, card), Cycle(s, card)) :
                                                card \in Names(s.hand)}))
          IN SetOr(spells,
                   Collapse(UNION {Sacrifice(s, card) :
                                     card \in Names(s.battlefield)}))

\* mutant: the test of line 195 is missing
NextStatesNoTerminalTest(s, max_turns) == Branches(s, max_turns)

\* GameState.next_states
NextStates(s, max_turns) ==
  IF s.overflowed \/ s.done THEN {s} ELSE Branches(s, max_turns)

(***************************************************************************)
(* Inputs: the shuffled deck (load_deck), the coin flip, max_turns.        *)
(***************************************************************************)
DeckList(i) ==
  CASE i = 1 -> << "Forest", "Forest", "Simian Spirit Guide", "Debug Titan",
                   "Forest", "Forest", "Forest", "Forest", "Forest", "Forest" >>
    [] i = 2 -> << "Forest", "Forest", "Amulet of Vigor", "Amulet of Vigor",
                   "Simic Growth Chamber", "Summer Bloom", "Primeval Titan",
                   "Forest", "Forest", "Forest" >>
    [] i = 3 -> << "Once Upon a Time", "Summoner's Pact", "Gemstone Caverns",
                   "Forest", "Forest", "Forest", "Forest",
                   "Primeval Titan", "Forest", "Amulet of Vigor", "Forest",
                   "Forest", "Forest", "Once Upon a Time", "Forest", "Forest" >>
    [] i = 4 -> << "Search for Tomorrow", "Relic of Progenitus",
                   "Sakura-Tribe Scout", "Explore", "Forest", "Forest", "Forest",
                   "Forest", "Debug Titan", "Forest", "Forest" >>
    [] i = 5 -> << "Ancient Stirrings", "Forest", "Forest", "Forest", "Forest",
                   "Forest", "Debug Titan", "Forest" >>
    [] i = 6 -> << "Through the Breach", "Simian Spirit Guide",
                   "Simian Spirit Guide", "Simian Spirit Guide",
                   "Primeval Titan", "Forest", "Forest",
                   "Opt", "Azusa, Lost but Seeking", "Forest" >>
    [] i = 7 -> << "Summoner's Pact", "Explore", "Simian Spirit Guide",
                   "Forest", "Forest", "Forest", "Forest",
                   "Primeval Titan", "Forest", "Forest" >>
    [] i = 8 -> << "Summoner's Pact", "Summer Bloom", "Gemstone Caverns",
                   "Forest", "Forest", "Forest", "Forest",
                   "Forest", "Forest", "Primeval Titan" >>
    [] OTHER -> << "Forest", "Forest", "Forest", "Forest", "Forest",
                   "Debug Titan", "Dryad of the Ilysian Grove", "Forest",
                   "Forest", "Forest" >>

\* the decks simulate is run on: the driver visits its sets in every order,
\* which only small hands keep within reach
SimDeck(i) ==
  CASE i = 1 -> DeckList(1)
    [] i = 2 -> << "Forest", "Forest", "Forest", "Forest", "Forest",
                   "Debug Titan", "Dryad of the Ilysian Grove", "Forest",
                   "Forest", "Forest" >>
    [] i = 3 -> DeckList(5)
    [] i = 4 -> << "Debug Titan", "Amulet of Vigor", "Debug Titan",
                   "Amulet of Vigor", "Summer Bloom", "Summer Bloom",
                   "Debug Titan", "Forest", "Forest", "Forest" >>
    [] OTHER -> << "Forest", "Forest", "Forest", "Forest", "Relic of Progenitus",
                   "Debug Titan", "Forest", "Forest", "Forest", "Forest" >>

\* gs0 of simulate: GameState(deck_list, on_the_play, reset_clock=True).draw(7)
Gs0(deck_list, on_the_play) ==
  Batch({GameState([deck_list |-> deck_list, on_the_play |-> on_the_play,
                    notes |-> <<"tracking colors">>])},
        LAMBDA x : Draw(x, 7))

\* a placeholder for a variable that holds no GameState at the moment
NoState == GameState([turn |-> 0])

\* dict item assignment summary["turns"][str(k)] = v
SetItem(d, k, v) == [i \in DOMAIN d \cup {k} |-> IF i = k THEN v ELSE d[i]]

Terminal(s) == s.overflowed \/ s.done

\* next_states returns only the cycle branch for Once Upon a Time
Priority(s) == s.spells_cast = 0 /\ In("Once Upon a Time", s.hand)

VARIABLES
  max_turns,    \* simulate's parameter
  gs,           \* the play walk: the current GameState
  op,           \* the play walk: the operation that produced gs
  pc,           \* simulate and the drivers: the statement to run next
  gs0,          \* simulate: the initial GameStates
  frontier,     \* simulate: gs, the frontier
  turn,         \* simulate: the loop variable
  summary,      \* simulate: summary["turns"]
  result,       \* simulate: the value returned
  todo,         \* GameStates.next_turn: members not yet visited by the for loop
  acc,          \* GameStates.next_turn: next_states
  self_turn,    \* GameState.next_turn: self.turn
  old_states,   \* GameState.next_turn: the worklist
  pending,      \* GameState.next_turn: successors not yet visited by the for loop
  cur,          \* GameState.next_turn: state, the successor at hand
  yielded,      \* what a draining consumer has received from the generator
  cap_exceeded  \* N_STATES > MAX_STATES or dt > MAX_SECONDS

walk_vars == <<gs, op>>

sim_vars == <<gs0, frontier, turn, summary, result, todo, acc>>

gen_vars == <<self_turn, old_states, pending, cur>>

vars == <<max_turns, walk_vars, pc, sim_vars, gen_vars, yielded, cap_exceeded>>

\* the variables of the search are idle during the play walk, and conversely
SearchIdle ==
  /\ pc = "idle"
  /\ gs0 = {} /\ frontier = {} /\ turn = 0 /\ summary = <<>>
  /\ result = [returned |-> FALSE, trace |-> <<>>]
  /\ todo = {} /\ acc = {}
  /\ self_turn = 0 /\ old_states = {} /\ pending = {} /\ cur = NoState
  /\ yielded = <<>> /\ cap_exceeded = FALSE

WalkIdle == gs = NoState /\ op = "idle"

search_vars == <<pc, sim_vars, gen_vars, yielded, cap_exceeded>>

(***************************************************************************)
(* The play walk: one line of play, a step being one member of             *)
(* next_states(max_turns + 1) as simulate's driver expands it: the states  *)
(* of turn max_turns + 1 are yielded to simulate and expanded no further.  *)
(***************************************************************************)
Init ==
  /\ max_turns \in 1 .. MaxTurns
  /\ \E i \in 1 .. NumDecks, on_the_play \in BOOLEAN :
       gs \in Gs0(DeckList(i), on_the_play)
  /\ op = "draw"
  /\ SearchIdle

WalkPassTurn ==
  /\ ~Terminal(gs)
  /\ gs.turn # max_turns + 1
  /\ gs' \in PassTurn(gs)
  /\ op' = "pass_turn"
  /\ UNCHANGED <<max_turns, search_vars>>

WalkPlay(card) ==
  /\ ~Terminal(gs)
  /\ gs.turn >= 1 /\ gs.turn <= max_turns
  /\ IsLand(card) /\ In(card, gs.hand)
  /\ gs' \in Play(gs, card)
  /\ op' = "play"
  /\ UNCHANGED <<max_turns, search_vars>>

WalkCast(card) ==
  /\ ~Terminal(gs)
  /\ gs.turn >= 1 /\ gs.turn <= max_turns
  /\ ~Priority(gs)
  /\ In(card, gs.hand)
  /\ gs' \in Cast(gs, card)
  /\ op' = "cast"
  /\ UNCHANGED <<max_turns, search_vars>>

WalkCycle(card) ==
  /\ ~Terminal(gs)
  /\ gs.turn >= 1 /\ gs.turn <= max_turns
  /\ Priority(gs) => card = "Once Upon a Time"
  /\ In(card, gs.hand)
  /\ gs' \in Cycle(gs, card)
  /\ op' = "cycle"
  /\ UNCHANGED <<max_turns, search_vars>>

WalkSacrifice(card) ==
  /\ ~Terminal(gs)
  /\ gs.turn >= 1 /\ gs.turn <= max_turns
  /\ ~Priority(gs)
  /\ In(card, gs.battlefield)
  /\ gs' \in Sacrifice(gs, card)
  /\ op' = "sacrifice"
  /\ UNCHANGED <<max_turns, search_vars>>

WalkTerminal ==
  /\ op # "idle"
  /\ Terminal(gs)
  /\ gs' \in NextStates(gs, max_turns + 1)
  /\ UNCHANGED <<max_turns, op, search_vars>>

Next ==
  \/ WalkPassTurn
  \/ \E card \in CardNames : WalkPlay(card)
  \/ \E card \in CardNames : WalkCast(card)
  \/ \E card \in CardNames : WalkCycle(card)
  \/ \E card \in CardNames : WalkSacrifice(card)
  \/ WalkTerminal

Spec == Init /\ [][Next]_vars

(***************************************************************************)
(* GameState.next_turn, a generator: the statements between two yields.    *)
(***************************************************************************)
\* the first next(): lines 215-218
GenStart(state) ==
  /\ self_turn' = state.turn
  /\ old_states' = IF state.turn = max_turns + 1 THEN {} ELSE {state}
  /\ pending' = {}
  /\ cur' = NoState

\* a worklist that reads its next member without removing it
GenPopKeeps ==
  /\ pc = "gen_while"
  /\ old_states # {}
  /\ \E p \in old_states : pending' = NextStates(p, max_turns + 1)
  /\ cap_exceeded' \in {cap_exceeded, TRUE}
  /\ pc' = "gen_for"
  /\ UNCHANGED <<max_turns, walk_vars, sim_vars, self_turn, old_states, cur, yielded>>

\* while old_states: old_states.pop().next_states(max_turns)
\* every GameState built on the way bumps N_STATES, and the clock runs
GenPop ==
  /\ pc = "gen_while"
  /\ old_states # {}
  /\ \E p \in old_states :
       /\ old_states' = old_states \ {p}
       /\ pending' = NextStates(p, max_turns + 1)
  /\ cap_exceeded' \in {cap_exceeded, TRUE}
  /\ pc' = "gen_for"
  /\ UNCHANGED <<max_turns, walk_vars, sim_vars, self_turn, cur, yielded>>

\* for state in ...: the next successor, and the test of line 224
GenForNext ==
  /\ pc = "gen_for"
  /\ \E s \in pending :
       /\ pending' = pending \ {s}
       /\ cur' = s
       /\ pc' = IF s.overflowed \/ s.done THEN "yield_done" ELSE "gen_turn"
  /\ UNCHANGED <<max_turns, walk_vars, sim_vars, self_turn, old_states,
                 yielded, cap_exceeded>>

\* the for loop is through: back to the while
GenForEnd ==
  /\ pc = "gen_for"
  /\ pending = {}
  /\ pc' = "gen_while"
  /\ UNCHANGED <<max_turns, walk_vars, sim_vars, gen_vars, yielded, cap_exceeded>>

\* a generator that forgets the successors still in the turn
GenTurnDrops ==
  /\ pc = "gen_turn"
  /\ IF cur.turn > self_turn THEN pc' = "yield_turn" ELSE pc' = "gen_for"
  /\ UNCHANGED <<max_turns, walk_vars, sim_vars, self_turn, old_states,
                 pending, cur, yielded, cap_exceeded>>

\* lines 226-229, reached after the test of line 224 or on resuming from
\* the yield of line 225
GenTurn ==
  /\ pc = "gen_turn"
  /\ IF cur.turn > self_turn
     THEN pc' = "yield_turn" /\ UNCHANGED old_states
     ELSE pc' = "gen_for" /\ old_states' = SetOr(old_states, {cur})
  /\ UNCHANGED <<max_turns, walk_vars, sim_vars, self_turn, pending, cur,
                 yielded, cap_exceeded>>

(***************************************************************************)
(* GameStates.next_turn: the consumer of the generators of its members.    *)
(***************************************************************************)
\* for state in self: the next member, if any; otherwise return next_states
NtNextState ==
  /\ pc = "nt_for"
  /\ \E state \in todo :
       /\ todo' = todo \ {state}
       /\ GenStart(state)
  /\ pc' = "gen_while"
  /\ UNCHANGED <<max_turns, walk_vars, gs0, frontier, turn, summary, result,
                 acc, yielded, cap_exceeded>>

NtReturn ==
  /\ pc = "nt_for"
  /\ todo = {}
  /\ frontier' = acc
  /\ pc' = "record"
  /\ UNCHANGED <<max_turns, walk_vars, gs0, turn, summary, result, todo, acc,
                 gen_vars, yielded, cap_exceeded>>

\* the generator of one member is exhausted
GenExhausted ==
  /\ pc = "gen_while"
  /\ old_states = {}
  /\ pc' = "nt_for"
  /\ UNCHANGED <<max_turns, walk_vars, sim_vars, gen_vars, yielded, cap_exceeded>>

\* a loop body that never looks at the meter
NtConsumeNoCapTest ==
  /\ pc \in {"yield_done", "yield_turn"}
  /\ IF cur.overflowed \/ cur.done
     THEN /\ frontier' = {cur}
          /\ pc' = "record"
          /\ UNCHANGED acc
     ELSE /\ acc' = SetOr(acc, {cur})
          /\ pc' = IF pc = "yield_done" THEN "gen_turn" ELSE "gen_for"
          /\ UNCHANGED frontier
  /\ UNCHANGED <<max_turns, walk_vars, gs0, turn, summary, result, todo,
                 gen_vars, yielded, cap_exceeded>>

\* a short-circuit that returns the goal state among the states collected
NtConsumeKeepsAcc ==
  /\ pc \in {"yield_done", "yield_turn"}
  /\ IF cur.overflowed \/ cur.done
     THEN /\ frontier' = SetOr(acc, {cur})
          /\ pc' = "record"
          /\ UNCHANGED acc
     ELSE /\ acc' = SetOr(acc, {cur})
          /\ pc' = IF cap_exceeded THEN "except"
                   ELSE IF pc = "yield_done" THEN "gen_turn" ELSE "gen_for"
          /\ UNCHANGED frontier
  /\ UNCHANGED <<max_turns, walk_vars, gs0, turn, summary, result, todo,
                 gen_vars, yielded, cap_exceeded>>

\* the body of the inner for loop, run on every item the generator yields
NtConsume ==
  /\ pc \in {"yield_done", "yield_turn"}
  /\ IF cur.overflowed \/ cur.done
     THEN /\ frontier' = {cur}
          /\ pc' = "record"
          /\ UNCHANGED acc
     ELSE /\ acc' = SetOr(acc, {cur})
          /\ pc' = IF cap_exceeded THEN "except"
                   ELSE IF pc = "yield_done" THEN "gen_turn" ELSE "gen_for"
          /\ UNCHANGED frontier
  /\ UNCHANGED <<max_turns, walk_vars, gs0, turn, summary, result, todo,
                 gen_vars, yielded, cap_exceeded>>

(***************************************************************************)
(* simulate                                                                *)
(***************************************************************************)
SimInit ==
  /\ max_turns \in 1 .. MaxTurns
  /\ \E i \in 1 .. NumSimDecks, on_the_play \in BOOLEAN :
       gs0 = Gs0(SimDeck(i), on_the_play)
  /\ pc = "start"
  /\ frontier = {} /\ turn = 0 /\ summary = <<>>
  /\ result = [returned |-> FALSE, trace |-> <<>>]
  /\ todo = {} /\ acc = {}
  /\ self_turn = 0 /\ old_states = {} /\ pending = {} /\ cur = NoState
  /\ yielded = <<>> /\ cap_exceeded = FALSE
  /\ WalkIdle

\* gs = gs0.pass_turn()
SimStart ==
  /\ pc = "start"
  /\ frontier' = Batch(gs0, PassTurn)
  /\ turn' = 1
  /\ pc' = "loop"
  /\ UNCHANGED <<max_turns, walk_vars, gs0, summary, result, todo, acc,
                 gen_vars, yielded, cap_exceeded>>

\* for turn in range(1, max_turns+1): gs = gs.next_turn(max_turns=max_turns+1)
SimLoop ==
  /\ pc = "loop"
  /\ IF turn <= max_turns
     THEN /\ todo' = frontier
          /\ acc' = {}
          /\ pc' = "nt_for"
     ELSE /\ pc' = "finish"
          /\ UNCHANGED <<todo, acc>>
  /\ UNCHANGED <<max_turns, walk_vars, gs0, frontier, turn, summary, result,
                 gen_vars, yielded, cap_exceeded>>

\* if gs.done: ... True else: ... False; gs.done is the flag of whichever
\* member the set's iteration meets first, None for the empty set
SimRecord ==
  /\ pc = "record"
  /\ \E d \in IF frontier = {} THEN {FALSE} ELSE {s.done : s \in frontier} :
       summary' = SetItem(summary, turn, IF d THEN "true" ELSE "false")
  /\ turn' = turn + 1
  /\ pc' = "loop"
  /\ UNCHANGED <<max_turns, walk_vars, gs0, frontier, result, todo, acc,
                 gen_vars, yielded, cap_exceeded>>

\* except state.TooManyStates: every pass of the loop assigns key str(turn)
SimExcept ==
  /\ pc = "except"
  /\ summary' = SetItem(summary, turn, "null")
  /\ frontier' = Batch(gs0, Overflow)
  /\ pc' = "finish"
  /\ UNCHANGED <<max_turns, walk_vars, gs0, turn, result, todo, acc,
                 gen_vars, yielded, cap_exceeded>>

\* a return that does not look at the done flag of the one state left
SimFinishIgnoresDone ==
  /\ pc = "finish"
  /\ result' = IF Cardinality(frontier) = 1
               THEN [returned |-> TRUE, trace |-> Pop(frontier).notes]
               ELSE [returned |-> TRUE, trace |-> <<>>]
  /\ pc' = "done"
  /\ UNCHANGED <<max_turns, walk_vars, gs0, frontier, turn, summary, todo, acc,
                 gen_vars, yielded, cap_exceeded>>

\* if len(gs) == 1 and gs.done: return gs.pop().report() else: return None
SimFinish ==
  /\ pc = "finish"
  /\ result' = IF Cardinality(frontier) = 1 /\ Pop(frontier).done
               THEN [returned |-> TRUE, trace |-> Pop(frontier).notes]
               ELSE [returned |-> TRUE, trace |-> <<>>]
  /\ pc' = "done"
  /\ UNCHANGED <<max_turns, walk_vars, gs0, frontier, turn, summary, todo, acc,
                 gen_vars, yielded, cap_exceeded>>

SimNext ==
  \/ SimStart
  \/ SimLoop
  \/ NtNextState
  \/ NtReturn
  \/ GenPop
  \/ GenForNext
  \/ GenForEnd
  \/ GenTurn
  \/ GenExhausted
  \/ NtConsume
  \/ SimRecord
  \/ SimExcept
  \/ SimFinish

SpecSim == SimInit /\ [][SimNext]_vars

\* the scheduler runs simulate to its end: no statement waits on anything
SpecSimFair == SpecSim /\ WF_vars(SimNext)

(***************************************************************************)
(* GameState.next_turn under a consumer that keeps iterating: it takes up  *)
(* to MaxYields items from the generator of one frontier member, then      *)
(* goes on with what it has received.                                      *)
(***************************************************************************)
DrainStart ==
  /\ pc = "loop"
  /\ turn <= max_turns
  /\ \E state \in frontier : GenStart(state)
  /\ yielded' = <<>>
  /\ pc' = "gen_while"
  /\ UNCHANGED <<max_turns, walk_vars, sim_vars, cap_exceeded>>

\* next(): the item is received and the generator resumed after its yield
DrainConsume ==
  /\ pc \in {"yield_done", "yield_turn"}
  /\ Len(yielded) < MaxYields
  /\ yielded' = Append(yielded, cur)
  /\ pc' = IF pc = "yield_done" THEN "gen_turn" ELSE "gen_for"
  /\ UNCHANGED <<max_turns, walk_vars, sim_vars, gen_vars, cap_exceeded>>

\* StopIteration: the items received are the next frontier
DrainExhausted ==
  /\ pc = "gen_while"
  /\ old_states = {}
  /\ frontier' = Collapse({yielded[i] : i \in DOMAIN yielded})
  /\ turn' = turn + 1
  /\ pc' = "loop"
  /\ UNCHANGED <<max_turns, walk_vars, gs0, summary, result, todo, acc,
                 gen_vars, yielded, cap_exceeded>>

DrainNext ==
  \/ SimStart
  \/ DrainStart
  \/ GenPop
  \/ GenForNext
  \/ GenForEnd
  \/ GenTurn
  \/ DrainConsume
  \/ DrainExhausted

SpecGen == SimInit /\ [][DrainNext]_vars

(***************************************************************************)
(* Properties                                                              *)
(***************************************************************************)
\* every GameState the search holds at the moment
Known ==
  frontier \cup todo \cup acc \cup old_states \cup pending
    \cup (IF pc \in {"gen_turn", "yield_done", "yield_turn"} THEN {cur} ELSE {})

\* all the states some sequence of next_states steps reaches from S, every
\* trace variant kept, states of a turn beyond the bound not expanded
RECURSIVE Closure(_, _, _)
Closure(seen, fresh, bound) ==
  LET new == UNION { NextStates(s, bound + 1) :
                       s \in {x \in fresh : x.turn <= bound /\ ~Terminal(x)} }
  IN IF new \subseteq seen THEN seen
     ELSE Closure(seen \cup new, new \ seen, bound)

Reachable ==
  LET first == UNION {PassTurn(s) : s \in gs0}
  IN Closure(first, first, max_turns)

NoOverflow == \A t \in DOMAIN summary : summary[t] # "null"

\* C1: when simulate ends without overflow, the record has an entry for
\* every turn 1 .. max_turns, and the entry of turn t is true exactly when
\* some sequence of next_states steps from the initial frontier reaches a
\* done state of turn <= t.
C1_RecordIsExhaustive ==
  (pc = "done" /\ NoOverflow) =>
     /\ DOMAIN summary = 1 .. max_turns
     /\ \A t \in 1 .. max_turns :
          (summary[t] = "true") <=> (\E s \in Reachable : s.done /\ s.turn <= t)
     /\ \A t \in 1 .. max_turns : summary[t] \in {"true", "false"}

C1_Witness ==
  /\ pc = "done"
  /\ max_turns = 2
  /\ summary = <<"false", "true">>

\* the twelve fields other than notes and deck_list
SameOtherFields(a, b) ==
  /\ a.battlefield = b.battlefield /\ a.deck_index = b.deck_index
  /\ a.done = b.done /\ a.hand = b.hand /\ a.land_drops = b.land_drops
  /\ a.mana_debt = b.mana_debt /\ a.mana_pool = b.mana_pool
  /\ a.on_the_play = b.on_the_play /\ a.overflowed = b.overflowed
  /\ a.spells_cast = b.spells_cast /\ a.suspended = b.suspended
  /\ a.turn = b.turn

\* C2: two states are equal and hash alike exactly when their fields other
\* than notes and deck_list are equal; clone() equals the original; a note
\* changes neither hash nor equality; a state set never holds two equal
\* members.
C2_CanonicalEquality ==
  /\ \A a, b \in Known :
       (Eq(a, b) /\ Hash(a) = Hash(b)) <=> SameOtherFields(a, b)
  /\ \A a \in Known :
       /\ Eq(Pop(Clone(a, <<>>)), a)
       /\ Eq(Pop(Note(a, <<"x">>)), a)
       /\ Hash(Pop(Note(a, <<"x">>))) = Hash(a)
  /\ \A S \in {frontier, todo, acc, old_states, pending} :
       \A a, b \in S : Eq(a, b) => a = b

\* a successor equal to a member of the worklist, reached by another trace
C2_Witness ==
  /\ pc = "gen_turn"
  /\ \E m \in old_states : Eq(cur, m) /\ cur.notes # m.notes

\* C3: within one search, equal states have the same successors up to
\* canonical equality.
C3_EqualStatesSameSuccessors ==
  \A a, b \in Known :
     (Eq(a, b) /\ a.deck_list = b.deck_list) =>
        LET na == NextStates(a, max_turns + 1)
            nb == NextStates(b, max_turns + 1)
        IN /\ \A x \in na : \E y \in nb : Eq(x, y)
           /\ \A y \in nb : \E x \in na : Eq(x, y)

C3_Witness ==
  /\ pc = "gen_turn"
  /\ \E m \in old_states :
       /\ Eq(cur, m) /\ cur.notes # m.notes
       /\ NextStates(m, max_turns + 1) # {}

\* C4: after an overflow while expanding turn k the record holds null for
\* every turn k .. max_turns.
C4_NullFromOverflowTurnOn ==
  (pc = "done" /\ \E s \in frontier : s.overflowed) =>
     \A t \in turn .. max_turns : t \in DOMAIN summary /\ summary[t] = "null"

\* C5: without the budget cap every call of GameStates.next_turn returns,
\* and what it returns holds only terminal states and states of the turn
\* after the caller's.
C5_TurnDriverTerminates ==
  /\ ([] ~cap_exceeded) => ((pc = "nt_for") ~> (pc = "record"))
  /\ [] (pc = "record" =>
           \A s \in frontier : Terminal(s) \/ s.turn = turn + 1)

C5_Witness ==
  /\ pc = "record"
  /\ ~cap_exceeded
  /\ Cardinality(frontier) >= 2
  /\ \A s \in frontier : ~Terminal(s) /\ s.turn = turn + 1

\* C6: a terminal successor is the last item the generator yields, it is
\* yielded once and it is not put back on the worklist.
C6_StopsAtTerminal ==
  \A i \in DOMAIN yielded :
     Terminal(yielded[i]) =>
        /\ i = Len(yielded)
        /\ \A m \in old_states : ~Eq(m, yielded[i])

\* C7 as claimed: next_turn never returns a frontier without a goal state
\* once the cap has been exceeded.
C7_NeverReturnsOverCap ==
  ~(pc = "record" /\ cap_exceeded /\ \A s \in frontier : ~s.done)

\* C7 as amended: the cap is tested right after a yielded live successor is
\* added to the result set; if it is exceeded then, the overflow fault is
\* raised, and the fault is raised only with the cap exceeded.
C7_CapTestedAtYield ==
  /\ [][ (pc \in {"yield_done", "yield_turn"} /\ ~Terminal(cur) /\ cap_exceeded)
           => pc' = "except" ]_vars
  /\ [] (pc = "except" => cap_exceeded /\ ~Terminal(cur) /\ cur \in acc)

C7_Witness ==
  /\ pc = "except"
  /\ Cardinality(acc) >= 2

\* C8: every successor of any transition has spells_cast no smaller and the
\* same turn, except that pass_turn may move to the next turn.
C8_Monotone ==
  /\ \A card \in CardNames :
       \A s \in Play(gs, card) \cup Cast(gs, card) \cup Cycle(gs, card)
                 \cup Sacrifice(gs, card) :
          s.spells_cast >= gs.spells_cast /\ s.turn = gs.turn
  /\ \A s \in PassTurn(gs) :
       s.spells_cast >= gs.spells_cast /\ s.turn \in {gs.turn, gs.turn + 1}

C8_Witness ==
  /\ op = "pass_turn"
  /\ gs.turn = 2
  /\ gs.spells_cast > 0

\* C9: deck_index never exceeds the length of the deck.
C9_DeckIndexInRange == gs.deck_index <= Len(gs.deck_list)

\* C10: next_states of a done or overflowed state is that state alone.
C10_TerminalAbsorbing ==
  \A s \in Known : Terminal(s) => NextStates(s, max_turns + 1) = {s}

C10_Witness ==
  /\ pc = "gen_for"
  /\ \E s \in pending : s.done /\ frontier = {s} /\ pending = {s}

\* the cards whose effect is the goal
GoalCards == {"Primeval Titan", "Debug Titan", "Through the Breach"}

\* C11: done is set only by casting Primeval Titan or Debug Titan from hand
\* with the cost paid from the pool, or Through the Breach with the cost
\* paid and a Primeval Titan in hand; play, cycle, sacrifice, pass_turn and
\* every other cast leave done unset.
C11_OnlyGoalEffectsSetDone ==
  /\ gs.done => op = "cast"
  /\ ~gs.done =>
       /\ \A s \in PassTurn(gs) : ~s.done
       /\ \A card \in CardNames :
            /\ \A s \in Play(gs, card) \cup Cycle(gs, card)
                      \cup Sacrifice(gs, card) : ~s.done
            /\ \A s \in Cast(gs, card) :
                 s.done =>
                   /\ card \in GoalCards
                   /\ In(card, gs.hand)
                   /\ s.mana_pool \in ManaMinus(gs.mana_pool, Cost(card))
                   /\ s.mana_pool # gs.mana_pool
                   /\ card = "Through the Breach" => In("Primeval Titan", gs.hand)

\* Through the Breach cast with the Titan left in hand
C11_Witness ==
  /\ gs.done
  /\ op = "cast"
  /\ In("Through the Breach", CardsOf(gs.deck_list))
  /\ gs.hand["Through the Breach"] = 0
  /\ gs.hand["Primeval Titan"] = 1

\* C12: cast, cycle, sacrifice and play of a land return the empty state
\* set, and raise nothing, whenever the card is not in hand (not on the
\* battlefield for sacrifice), the pool cannot cover the cost, or no land
\* drop is left.
C12_InfeasibleIsEmpty ==
  \A card \in CardNames :
     /\ (~In(card, gs.hand) \/ ~HasCost(card)
           \/ ~ManaGE(gs.mana_pool, Cost(card))) => Cast(gs, card) = {}
     /\ (~In(card, gs.hand) \/ ~HasCycleCost(card)
           \/ ~ManaGE(gs.mana_pool, CycleCost(card))) => Cycle(gs, card) = {}
     /\ (~In(card, gs.battlefield) \/ ~HasSacrificeCost(card)
           \/ ~ManaGE(gs.mana_pool, SacrificeCost(card))) => Sacrifice(gs, card) = {}
     /\ IsLand(card) =>
          /\ ~PlayRaises(gs, card)
          /\ (gs.land_drops = 0 \/ ~In(card, gs.hand)) => Play(gs, card) = {}

\* every kind of failed precondition at once: a land in hand with no drop
\* left, a spell in hand the pool cannot pay, a Relic that cannot be paid
C12_Witness ==
  /\ op = "cast"
  /\ gs.land_drops = 0
  /\ \E card \in Names(gs.hand) : IsLand(card)
  /\ \E card \in Names(gs.hand) :
       HasCost(card) /\ ~ManaGE(gs.mana_pool, Cost(card))
  /\ In("Relic of Progenitus", gs.battlefield)
  /\ ~ManaGE(gs.mana_pool, SacrificeCost("Relic of Progenitus"))

\* two state sets hold the same states up to the canonical equality
SameStates(A, B) ==
  /\ \A a \in A : \E b \in B : Eq(a, b)
  /\ \A b \in B : \E a \in A : Eq(a, b)

\* C13 as claimed: with no spell cast yet and Once Upon a Time in hand,
\* next_states of a live state returns exactly the successors of cycling
\* Once Upon a Time.
C13_OnlyCycleBranch ==
  (~Terminal(gs) /\ gs.turn >= 1 /\ Priority(gs)) =>
     SameStates(NextStates(gs, max_turns + 1), Cycle(gs, "Once Upon a Time"))

\* C13 as amended: with no spell cast yet and Once Upon a Time in hand,
\* next_states of a live state returns the successors of pass_turn (unless
\* the turn bound is reached), of playing each land in hand and of cycling
\* Once Upon a Time, and nothing else: no other card is cast or cycled and
\* nothing is sacrificed.
C13_PriorityRule ==
  (~Terminal(gs) /\ gs.turn >= 1 /\ Priority(gs)) =>
     SameStates(NextStates(gs, max_turns + 1),
                (IF gs.turn # max_turns + 1 THEN PassTurn(gs) ELSE {})
                  \cup UNION {Play(gs, card) :
                                card \in {c \in Names(gs.hand) : IsLand(c)}}
                  \cup Cycle(gs, "Once Upon a Time"))

\* a first-turn hand with Once Upon a Time, a land to play and a spell
\* that could be cast were it not for the rule
C13_Witness ==
  /\ gs.turn = 1
  /\ Priority(gs)
  /\ Cycle(gs, "Once Upon a Time") # {}
  /\ \E card \in Names(gs.hand) : Play(gs, card) # {}
  /\ \E card \in Names(gs.hand) : Cast(gs, card) # {}

\* every cost the program ever asks a pool to pay
CostSet ==
  {Cost(c) : c \in CardNames} \cup {CycleCost(c) : c \in CardNames}
    \cup {SacrificeCost(c) : c \in CardNames} \cup {Mana(2, 0, 2), Mana(4, 0, 4)}

ManaTotal(m) == m.G + m.R + m.N

NonNegative(m) == m.G >= 0 /\ m.R >= 0 /\ m.N >= 0

\* the pool dominates the cost in every colour and has enough left over to
\* absorb the generic part
Covers(pool, cost) ==
  /\ pool.G >= cost.G
  /\ pool.R >= cost.R
  /\ ManaTotal(pool) >= ManaTotal(cost)

\* C14: pay(cost) has one successor per residue of mana_pool minus cost and
\* none when the pool cannot cover the cost; every residue plus the cost
\* makes the pool again, no residue has a negative component, generic 1
\* paid from R + G leaves exactly G or R, and mana_pool and mana_debt are
\* never negative.
C14_ManaPayment ==
  /\ NonNegative(gs.mana_pool) /\ NonNegative(gs.mana_debt)
  /\ ManaMinus(Mana(1, 1, 0), Mana(0, 0, 1)) = {Mana(1, 0, 0), Mana(0, 1, 0)}
  /\ \A cost \in CostSet :
       LET paid == Pay(gs, cost, <<>>)
           residues == ManaMinus(gs.mana_pool, cost)
       IN /\ {s.mana_pool : s \in paid} = residues
          /\ Cardinality(paid) = Cardinality(residues)
          /\ (paid # {}) <=> Covers(gs.mana_pool, cost)
          /\ (paid # {}) <=> ManaGE(gs.mana_pool, cost)
          /\ \A s \in paid :
               /\ NonNegative(s.mana_pool)
               /\ ManaTotal(s.mana_pool) + ManaTotal(cost) = ManaTotal(gs.mana_pool)
               /\ s.mana_pool.G <= gs.mana_pool.G - cost.G
               /\ s.mana_pool.R <= gs.mana_pool.R - cost.R
               /\ s.mana_pool.N <= gs.mana_pool.N
               /\ Eq(s, [gs EXCEPT !.mana_pool = s.mana_pool])

\* Opt is paid for with a Forest's G and a Spirit Guide's R in the pool
C14_Witness ==
  /\ gs.mana_pool = Mana(1, 1, 0)
  /\ In("Opt", gs.hand)
  /\ Cardinality(Pay(gs, Cost("Opt"), <<>>)) = 2

\* C15: for every card name other than Forest and Gemstone Mine, the copies
\* in hand plus the copies on the battlefield never exceed the copies in
\* deck_list.
C15_NoMoreCopiesThanDeck ==
  \A c \in CardNames \ {"Forest", "Gemstone Mine"} :
     gs.hand[c] + gs.battlefield[c] <= CardsOf(gs.deck_list)[c]

\* the hand without one Gemstone Caverns
OtherCards(s) == RemoveCard(s.hand, "Gemstone Caverns")

\* s is state p with nothing but hand, battlefield and trace changed
SameButZones(s, p) ==
  Eq(s, [p EXCEPT !.hand = s.hand, !.battlefield = s.battlefield])

\* C16: on the draw with Gemstone Caverns in hand, pre_game_actions gives
\* one branch that leaves hand and battlefield alone and one branch per
\* other card in hand (copies of one name give the same branch), where Gemstone Caverns and that card leave the hand
\* and a Gemstone Mine enters the battlefield; on the play, or without
\* Gemstone Caverns, it gives the unchanged state only.  Passing from turn
\* 0 continues from exactly these branches.
C16_GemstoneCaverns ==
  LET pre == PreGameActions(gs)
      ignore == {s \in pre : s.hand = gs.hand /\ s.battlefield = gs.battlefield}
      exile(card) ==
        {s \in pre : /\ s.hand = RemoveCard(OtherCards(gs), card)
                     /\ s.battlefield = AddCard(gs.battlefield, "Gemstone Mine")}
  IN /\ \A s \in pre : SameButZones(s, gs)
     /\ IF In("Gemstone Caverns", gs.hand) /\ ~gs.on_the_play
        THEN /\ Cardinality(ignore) = 1
             /\ \A card \in Names(OtherCards(gs)) : Cardinality(exile(card)) = 1
             /\ pre = ignore \cup UNION {exile(card) : card \in Names(OtherCards(gs))}
             /\ Cardinality(pre) = 1 + Cardinality(Names(OtherCards(gs)))
        ELSE pre = ignore /\ Cardinality(pre) = 1
     /\ gs.turn = 0 =>
          /\ {s.battlefield : s \in PassTurn(gs)} = {s.battlefield : s \in pre}
          /\ \A s \in PassTurn(gs) :
               \E b \in pre :
                  /\ s.battlefield = b.battlefield
                  /\ s.hand = IF gs.on_the_play THEN b.hand
                              ELSE AddCards(b.hand, Top(gs, 1))

\* a first turn that starts with the Gemstone Mine cheated out
C16_Witness ==
  /\ op = "pass_turn"
  /\ gs.turn = 1
  /\ ~gs.on_the_play
  /\ In("Gemstone Caverns", CardsOf(gs.deck_list))
  /\ gs.hand["Gemstone Caverns"] = 0
  /\ gs.battlefield["Gemstone Mine"] = 1

\* the number of turn markers among the first i tokens of a trace
TurnAt(notes, i) ==
  Cardinality({j \in 1 .. i : notes[j] = "\n---- turn"})

\* a Summoner's Pact was cast during the first turn of the trace
PactCastOnTurnOne(s) ==
  \E i \in 1 .. Len(s.notes) - 1 :
     /\ s.notes[i] = "\ncast"
     /\ s.notes[i + 1] = "Summoner's Pact"
     /\ TurnAt(s.notes, i) = 1

\* C17: pass_turn returns the empty set for a state of turn >= 1 with an
\* empty battlefield and for a state of turn < 2 with a debt; so no state
\* of turn 2 or later follows a state that ended turn 1 with an empty
\* battlefield or a debt, and a Summoner's Pact cast on turn 1 is never
\* followed by a later turn (and so by no goal on a later turn).
C17_PassTurnPruning ==
  /\ [] /\ (gs.turn >= 1 /\ Names(gs.battlefield) = {}) => PassTurn(gs) = {}
        /\ (gs.turn < 2 /\ ManaBool(gs.mana_debt)) => PassTurn(gs) = {}
        /\ PactCastOnTurnOne(gs) => gs.turn = 1
  /\ [][ (gs.turn = 1 /\ gs'.turn >= 2) =>
            /\ Names(gs.battlefield) # {}
            /\ ~ManaBool(gs.mana_debt)
            /\ ~PactCastOnTurnOne(gs) ]_vars

\* a first turn with a land on the battlefield and a Pact cast
C17_Witness ==
  /\ gs.turn = 1
  /\ PactCastOnTurnOne(gs)
  /\ ManaBool(gs.mana_debt)
  /\ Names(gs.battlefield) # {}

\* the battlefield once the opponent has killed every creature flagged dies
AfterKills(battlefield) ==
  [c \in CardNames |-> IF Dies(c) THEN 0 ELSE battlefield[c]]

\* C18: every successor of pass_turn from p has turn = p.turn + 1, no debt,
\* and land_drops = 1 + 2 * Azusa + Dryad + Scout counted on the
\* battlefield left after the kills; nothing of p's land drops or pool is
\* carried over: the successors are those of p with no land drop and an
\* empty pool, and with no debt and nothing suspended the new pool is one
\* that tapping out the battlefield gives.
C18_PassTurnReset ==
  LET kept == AfterKills(gs.battlefield)
  IN /\ \A s \in PassTurn(gs) :
          /\ s.turn = gs.turn + 1
          /\ s.mana_debt = ManaZero
          /\ s.land_drops = 1 + 2 * kept["Azusa, Lost but Seeking"]
                              + kept["Dryad of the Ilysian Grove"]
                              + kept["Sakura-Tribe Scout"]
          /\ \A c \in CardNames : Dies(c) => s.battlefield[c] = 0
          /\ (gs.suspended = <<>> /\ ~ManaBool(gs.mana_debt)) =>
                s.mana_pool \in TapPools({ManaZero}, kept)
     /\ PassTurn(gs) = PassTurn([gs EXCEPT !.land_drops = 0, !.mana_pool = ManaZero])

\* a turn begun with Azusa on the battlefield
C18_Witness ==
  /\ op = "pass_turn"
  /\ gs.turn = 3
  /\ gs.battlefield["Azusa, Lost but Seeking"] = 1
  /\ gs.land_drops = 3
  /\ gs.mana_pool # ManaZero

\* a Summoner's Pact was cast during the turn the trace is in
PactCastThisTurn(s) ==
  \E i \in 1 .. Len(s.notes) - 1 :
     /\ s.notes[i] = "\ncast"
     /\ s.notes[i + 1] = "Summoner's Pact"
     /\ TurnAt(s.notes, i) = TurnAt(s.notes, Len(s.notes))

\* the successors of pass_turn from s had it owed nothing: their pools are
\* the mana available at upkeep
Upkeep(s) == PassTurn([s EXCEPT !.mana_debt = ManaZero])

\* C19: a state of turn >= 2 that owes d passes the turn into exactly the
\* states that an upkeep state gives with its pool replaced by a residue of
\* paying d from it, one successor per residue and none when no upkeep
\* pool covers d; every successor owes nothing, so a state that owes mana
\* has cast the Pact during its own turn and no turn starts with a debt.
C19_DebtPaidAtUpkeep ==
  /\ (ManaBool(gs.mana_debt) /\ gs.turn >= 2) =>
        /\ SameStates(PassTurn(gs),
                      {[f EXCEPT !.mana_pool = r] :
                         <<f, r>> \in UNION {{f} \X ManaMinus(f.mana_pool, gs.mana_debt) :
                                               f \in Upkeep(gs)}})
        /\ (\A f \in Upkeep(gs) : ~Covers(f.mana_pool, gs.mana_debt)) =>
              PassTurn(gs) = {}
        /\ \A s \in PassTurn(gs) :
              \E f \in Upkeep(gs) :
                 /\ Eq([s EXCEPT !.mana_pool = f.mana_pool], f)
                 /\ s.mana_pool \in ManaMinus(f.mana_pool, gs.mana_debt)
                 /\ \A t \in PassTurn(gs) :
                       (Eq([t EXCEPT !.mana_pool = f.mana_pool], f)
                          /\ t.mana_pool = s.mana_pool) => Eq(t, s)
  /\ \A s \in PassTurn(gs) : s.mana_debt = ManaZero
  /\ op = "pass_turn" => gs.mana_debt = ManaZero
  /\ ManaBool(gs.mana_debt) => PactCastThisTurn(gs)

\* a third turn begun by paying for a Pact cast on the second
C19_Witness ==
  /\ op = "pass_turn"
  /\ gs.turn = 3
  /\ \E i \in 1 .. Len(gs.notes) : gs.notes[i] = ", pay for pact"
  /\ \E i \in 1 .. Len(gs.notes) - 1 :
        /\ gs.notes[i] = "\ncast"
        /\ gs.notes[i + 1] = "Summoner's Pact"
        /\ TurnAt(gs.notes, i) = 2

\* the states pass_turn draws from: the branches of the pre-game actions
\* when passing from turn 0, the state itself on a later turn
BeforeDraw(s) == IF s.turn = 0 THEN PreGameActions(s) ELSE {s}

\* C20: every successor of pass_turn has deck_index advanced by one and the
\* top card of the deck added to the hand, except when passing from turn 0
\* on the play, where the deck_index and the hand are left alone.
C20_DrawStep ==
  \A s \in PassTurn(gs) :
     IF gs.on_the_play /\ gs.turn = 0
     THEN /\ s.deck_index = gs.deck_index
          /\ \E b \in BeforeDraw(gs) : s.hand = b.hand
     ELSE /\ s.deck_index = gs.deck_index + 1
          /\ gs.deck_index < Len(gs.deck_list)
          /\ \E b \in BeforeDraw(gs) :
                s.hand = AddCard(b.hand, gs.deck_list[gs.deck_index + 1])

\* the positions of suspended whose counter is above one
Waiting(s) == {i \in DOMAIN s.suspended : s.suspended[i][2] > 1}

\* C21: every suspended entry has a counter >= 1; pass_turn lowers every
\* counter by one, casts the cards whose counter reaches zero (one more
\* spell cast for each) and leaves in suspended only the cards that are
\* still waiting, so a card is cast from suspend once and is gone after.
C21_SuspendResolvesOnce ==
  /\ \A i \in DOMAIN gs.suspended : gs.suspended[i][2] >= 1
  /\ \A s \in PassTurn(gs) :
        /\ Len(s.suspended) = Cardinality(Waiting(gs))
        /\ \A i \in Waiting(gs) :
              \E j \in DOMAIN s.suspended :
                 s.suspended[j] = <<gs.suspended[i][1], gs.suspended[i][2] - 1>>
        /\ s.spells_cast = gs.spells_cast + Len(gs.suspended) - Cardinality(Waiting(gs))

\* C22: play(card) has successors only from a state with land_drops > 0
\* and the card in hand, every successor has one land drop less than the
\* state played from, whatever the handler of the land does, and
\* land_drops is never negative.
C22_LandDropAccounting ==
  /\ gs.land_drops >= 0
  /\ \A card \in {c \in CardNames : IsLand(c)} :
        /\ Play(gs, card) # {} => (gs.land_drops > 0 /\ In(card, gs.hand))
        /\ \A s \in Play(gs, card) : s.land_drops = gs.land_drops - 1

\* a bounce land just played, with a land drop left after it
C22_Witness ==
  /\ op = "play"
  /\ gs.notes[Len(gs.notes) - 1] = ", bounce"
  /\ gs.battlefield["Simic Growth Chamber"] = 1
  /\ gs.land_drops >= 1
  /\ \E card \in {c \in CardNames : IsLand(c)} : Play(gs, card) # {}

\* the pools that k taps of a card give, one taps_for option at each tap
RECURSIVE PoolsAfterTaps(_, _, _)
PoolsAfterTaps(pools, card, k) ==
  IF k = 0 \/ TapsFor(card) = {} THEN pools
  ELSE PoolsAfterTaps({ManaPlus(p, m) : p \in pools, m \in TapsFor(card)},
                      card, k - 1)

\* C23: a land played while k Amulets of Vigor are on the battlefield is
\* tapped k times when it enters tapped and once when it enters untapped,
\* each tap adding one of its taps_for options to the pool; one copy of
\* the land has moved from hand to battlefield, after which a bounce land
\* returns one land of that battlefield to the hand.
C23_AmuletTriggers ==
  \A card \in {c \in CardNames : IsLand(c)} :
     LET k == IF EntersTapped(card) THEN gs.battlefield["Amulet of Vigor"] ELSE 1
         entered == AddCard(gs.battlefield, card)
         left == RemoveCard(gs.hand, card)
     IN Play(gs, card) # {} =>
          /\ {s.mana_pool : s \in Play(gs, card)}
                = PoolsAfterTaps({gs.mana_pool}, card, k)
          /\ \A s \in Play(gs, card) :
                IF card = "Simic Growth Chamber"
                THEN \E b \in {c \in Names(entered) : IsLand(c)} :
                        /\ s.battlefield = RemoveCard(entered, b)
                        /\ s.hand = AddCard(left, b)
                ELSE s.battlefield = entered /\ s.hand = left

\* a bounce land played with two Amulets out: two taps in the pool
C23_Witness ==
  /\ op = "play"
  /\ gs.notes[Len(gs.notes) - 1] = ", bounce"
  /\ gs.battlefield["Amulet of Vigor"] = 2
  /\ gs.mana_pool = Mana(2, 0, 2)

\* C24 as claimed: at the start of iteration t every frontier state has
\* turn t; after GameStates.next_turn the frontier is a single done state
\* or a set of non-terminal states of turn t + 1; no state held by the
\* search has a turn above max_turns + 1.
C24_FrontierShape ==
  /\ (pc = "loop" /\ turn <= max_turns) => \A s \in frontier : s.turn = turn
  /\ pc = "record" =>
        \/ \E g \in frontier : frontier = {g} /\ g.done
        \/ \A s \in frontier : ~Terminal(s) /\ s.turn = turn + 1
  /\ \A s \in Known : s.turn <= max_turns + 1

\* C24 as amended: at the start of iteration t the frontier is a set of
\* non-terminal states of turn t, or the single done state found on an
\* earlier iteration, which keeps the turn it was found on; after
\* GameStates.next_turn it is a single done state of turn at most t or a
\* set of non-terminal states of turn t + 1, so every member gives the
\* same done flag; no state held by the search has a turn above
\* max_turns + 1.
C24_FrontierShapeOrGoal ==
  /\ (pc = "loop" /\ turn <= max_turns) =>
        \/ \A s \in frontier : ~Terminal(s) /\ s.turn = turn
        \/ \E g \in frontier : frontier = {g} /\ g.done /\ g.turn < turn
  /\ pc = "record" =>
        /\ \/ \E g \in frontier : frontier = {g} /\ g.done /\ g.turn <= turn
           \/ \A s \in frontier : ~Terminal(s) /\ s.turn = turn + 1
        /\ Cardinality({s.done : s \in frontier}) <= 1
  /\ \A s \in Known : s.turn <= max_turns + 1

\* the second iteration starts from the goal state found on the first
C24_Witness ==
  /\ pc = "loop"
  /\ turn = 2 /\ max_turns = 2
  /\ \E g \in frontier : frontier = {g} /\ g.done /\ g.turn = 1

\* the frontier is the single goal state
GoalFound == \E g \in frontier : frontier = {g} /\ g.done

FreeCycles(s) ==
  {i \in 1 .. Len(s.notes) - 1 :
     s.notes[i] = "\ncycle" /\ s.notes[i + 1] = "Once Upon a Time"}

\* C26: cycling Once Upon a Time has successors only from a state with
\* spells_cast = 0 and each of them has spells_cast = 1; with a spell
\* cast it has none, even with the card in hand; so a trace holds at most
\* one free cycle, and no spell is cast, from hand or from suspend, before
\* it.
C26_FreeCycleOnce ==
  /\ \A s \in Cycle(gs, "Once Upon a Time") :
        gs.spells_cast = 0 /\ s.spells_cast = 1
  /\ gs.spells_cast > 0 => Cycle(gs, "Once Upon a Time") = {}
  /\ Cardinality(FreeCycles(gs)) <= 1
  /\ \A i \in FreeCycles(gs) :
        /\ gs.spells_cast >= 1
        /\ \A j \in 1 .. i - 1 :
              gs.notes[j] \notin {"\ncast", ", cast from suspend"}

\* a second Once Upon a Time in hand after the first was cycled for free
C26_Witness ==
  /\ FreeCycles(gs) # {}
  /\ In("Once Upon a Time", gs.hand)
  /\ gs.spells_cast >= 1
  /\ gs.turn <= max_turns

=============================================================================
